---- MODULE Spec2Model ----
(***************************************************************************)
(* State-machine model of the followmark popup extension.                  *)
(*                                                                         *)
(*   src/src/popup.ts    the click handler of the popup's single button     *)
(*   src/src/common.ts   MakeMark, writeStorage, getStorage,                *)
(*                       generateUniqueId, getInfoFromTab                   *)
(*   src/unnamed/part_000  the Check / Return guards                        *)
(*                                                                         *)
(* A JavaScript object is a TLA+ function whose DOMAIN is the set of the    *)
(* object's own keys: a key that is not in the DOMAIN reads as undefined.   *)
(* The extension's code is single threaded; every action below is one run   *)
(* of the event loop between two suspensions on a platform promise or       *)
(* callback (chrome.storage.local.get / set, chrome.tabs.query,             *)
(* chrome.scripting.executeScript).                                        *)
(***************************************************************************)
EXTENDS FiniteSets, Integers, Sequences, TLC

\* ------------------------------------------------------------------ bounds
\* Number of clicks on the popup button (one handler invocation per click).
MaxClicks == 2

Handlers == 1..MaxClicks

\* ------------------------------------------------------- platform values
\* chrome.runtime.getManifest().version, popup.ts:11
ManifestVersion == "1.0.0"

\* An inline data URI favicon, and the prefix getInfoFromTab tests for.
DataPrefix == "data:"
DataIcon == "data:image/png;base64,AAAA"

\* The active tabs chrome.tabs.query can hand to MakeMark's callback.  A
\* field the browser leaves out (url, title, favIconUrl, id) is a missing key.
Tabs ==
  { [id |-> 7, url |-> "https://a", title |-> "A", favIconUrl |-> "https://x/icon.ico"],
    [id |-> 7, url |-> "https://a", title |-> "A", favIconUrl |-> DataIcon],
    [url |-> "https://b", title |-> "B", favIconUrl |-> DataIcon],
    [id |-> 8, url |-> "https://b", favIconUrl |-> "data"],
    [id |-> 9, title |-> "blank"] }

\* What awaiting chrome.scripting.executeScript can produce: a rejection, or
\* an array of injection results whose first result is the href of the page's
\* link[rel*="icon"] element, or "" when the page has no such element.
ScriptOutcomes ==
  { [kind |-> "throws"],
    [kind |-> "results", results |-> << [result |-> "https://x/icon.png"] >>],
    [kind |-> "results", results |-> << [result |-> ""] >>],
    [kind |-> "results", results |-> << >>] }

\* The outcome passed to getInfoFromTab when it never awaits executeScript.
NoScript == [kind |-> "none"]

\* Values generateUniqueId can return (timestamp + random suffix, base 36).
Ids == {"lx1a2b", "lx1c3d"}

\* ------------------------------------------------------ JavaScript helpers
\* String.prototype.startsWith
StartsWith(s, prefix) ==
  /\ Len(s) >= Len(prefix)
  /\ SubSeq(s, 1, Len(prefix)) = prefix

\* obj[key] is not undefined
Has(obj, key) == key \in DOMAIN obj

\* !value for an optional string: undefined and "" are falsy
FalsyString(obj, key) == ~Has(obj, key) \/ obj[key] = ""

\* let x = obj.key; if (!x) x = "";
StringOrEmpty(obj, key) == IF FalsyString(obj, key) THEN "" ELSE obj[key]

\* !tabId for an optional number: undefined and 0 are falsy
FalsyNumber(obj, key) == ~Has(obj, key) \/ obj[key] = 0

\* ------------------------------------------------- chrome.storage.local
\* chrome.storage.local.set(items): every top-level key of items replaces the
\* stored value of that key; the other stored keys are kept (shallow merge).
StorageSet(st, items) ==
  [k \in (DOMAIN st) \cup (DOMAIN items) |->
     IF k \in DOMAIN items THEN items[k] ELSE st[k]]

\* chrome.storage.local.get(key): an object holding key when it is stored.
StorageGet(st, key) == [k \in {key} \cap (DOMAIN st) |-> st[k]]

\* The object with no keys.
EmptyObject == [k \in {} |-> ""]

\* An optional value is a sequence of at most one element: undefined is
\* the empty sequence.
Undefined == << >>
Defined(v) == << v >>

\* obj[key], undefined when the object has no such key
Lookup(obj, key) == IF Has(obj, key) THEN Defined(obj[key]) ELSE Undefined

\* ------------------------------------------------------------- common.ts
\* writeStorage, common.ts:23-29: chrome.storage.local.set(items).
writeStorage(st, items) == StorageSet(st, items)

\* getStorage, common.ts:33-39: retrieved[key] of chrome.storage.local.get(key).
getStorage(st, key) ==
  LET retrieved == StorageGet(st, key)
  IN  Lookup(retrieved, key)

\* MakeMark keying the entry by the generated id instead of the tab's URL.
MarkItems_KeyedById(url, id, favIconUrl) ==
  [followMarks |-> (id :> [id |-> id, favIconUrl |-> favIconUrl])]

\* The items MakeMark hands to writeStorage, common.ts:6-13.
MarkItems(url, id, favIconUrl) ==
  [followMarks |-> (url :> [id |-> id, favIconUrl |-> favIconUrl])]

\* The items the click handler hands to writeStorage, popup.ts:12.
VersionItems(version) == [followMarkVersion |-> version]

\* The handler skipping the version write whatever it read.
VersionAbsent_Never(test) == FALSE

\* The handler writing the version on every click, whatever it read.
VersionAbsent_Always(test) == TRUE

\* !followMarkVersionTest, popup.ts:10: undefined and "" are falsy.
VersionAbsent(test) == test = Undefined \/ test[1] = ""

\* The handler calling MakeMark without testing followMarksTest.
MarksAbsent_NoCheck(test) == TRUE

\* !followMarksTest, popup.ts:15: every stored object is truthy.
MarksAbsent(test) == test = Undefined

\* The handler with each await wrapped in a try/catch that carries on.
OnReject_Swallowed(step) ==
  CASE step = "getVersion" -> "setVersion"
    [] step = "setVersion" -> "getMarks"
    [] OTHER -> "done"

\* Where the handler goes when the storage promise it awaits at the given
\* step rejects: no try/catch surrounds the awaits, popup.ts:8-18.
OnReject(step) == "failed"

\* getInfoFromTab without the try/catch: a rejection of executeScript
\* rejects getInfoFromTab and with it the callback.
AfterScript_Propagates(outcome) ==
  IF outcome.kind = "throws" THEN "scriptRejected" ELSE "write"

\* Where MakeMark's callback goes when the awaited executeScript has settled:
\* the try/catch of common.ts:68-82 swallows a rejection, so getInfoFromTab
\* returns and the callback reaches writeStorage either way.
AfterScript(outcome) == "write"

\* getInfoFromTab injecting the script into every tab that has an id.
NeedsInjection_NoPrefixTest(tab) == ~FalsyNumber(tab, "id")

\* getInfoFromTab reaches the await of executeScript, common.ts:61-69.
NeedsInjection(tab) ==
  /\ StartsWith(StringOrEmpty(tab, "favIconUrl"), DataPrefix)
  /\ ~FalsyNumber(tab, "id")

\* results && results[0]?.result, common.ts:77
ScriptResultTruthy(outcome) ==
  /\ outcome.kind = "results"
  /\ Len(outcome.results) >= 1
  /\ ~FalsyString(outcome.results[1], "result")

\* getInfoFromTab, common.ts:54-86.  outcome is what the awaited
\* executeScript produced; it is read only when NeedsInjection(tab).
getInfoFromTab(tab, outcome) ==
  LET url == StringOrEmpty(tab, "url")
      title == StringOrEmpty(tab, "title")
      favIconUrl == StringOrEmpty(tab, "favIconUrl")
  IN  IF StartsWith(favIconUrl, DataPrefix)
      THEN IF FalsyNumber(tab, "id")
           THEN [url |-> url, title |-> title, favIconUrl |-> ""]
           ELSE IF ScriptResultTruthy(outcome)
                THEN [url |-> url, title |-> title,
                      favIconUrl |-> outcome.results[1].result]
                ELSE [url |-> url, title |-> title, favIconUrl |-> favIconUrl]
      ELSE [url |-> url, title |-> title, favIconUrl |-> favIconUrl]

\* --------------------------------------------- part_000, Check and Return
\* JavaScript values handed to the guards: a record with the value's kind
\* and, for the kinds that have one, its content.
JsNull == [kind |-> "null"]
JsUndefined == [kind |-> "undefined"]
JsValues ==
  { JsNull, JsUndefined,
    [kind |-> "string", value |-> ""],
    [kind |-> "string", value |-> "stage"],
    [kind |-> "number", value |-> "0"],
    [kind |-> "number", value |-> "42"],
    [kind |-> "boolean", value |-> "false"],
    [kind |-> "element", value |-> "div#stage"],
    [kind |-> "button", value |-> "button#main"] }

\* typeof item
Typeof(item) ==
  CASE item.kind = "undefined" -> "undefined"
    [] item.kind \in {"null", "element", "button"} -> "object"
    [] OTHER -> item.kind

\* What a call does: it returns a value or it throws an Error.
Returns(v) == [does |-> "returns", value |-> v]
Throws(message) == [does |-> "throws", message |-> message]
NoResult == [does |-> "nothing"]

\* Check.forUndefined, part_000:100-106
Check_forUndefined(item) ==
  IF Typeof(item) = "undefined"
  THEN Throws("item is undefined")
  ELSE Returns(item)

\* Check.forNull testing !item instead of item === null.
Check_forNull_Falsy(item) ==
  IF item.kind \in {"null", "undefined"}
     \/ (item.kind \in {"string", "number", "boolean"}
         /\ item.value \in {"", "0", "false"})
  THEN Throws("null is null")
  ELSE Returns(item)

\* Check.forNull, part_000:114-119
Check_forNull(item) ==
  IF item = JsNull
  THEN Throws("null is null")
  ELSE Returns(item)

\* Return.element, part_000:149-151
Return_element(item) == Check_forNull(item)

\* Return.button, part_000:157-159
Return_button(button) == Check_forNull(button)

\* Return.string, part_000:165-167
Return_string(string) == Check_forNull(string)

\* Return.number, part_000:173-175
Return_number(number) == Check_forUndefined(number)

\* Return._any, part_000:182-184
Return_any(item) == Check_forNull(item)

\* The guards built on Check.forNull and the guards built on
\* Check.forUndefined.
NullGuards == {"Check.forNull", "Return.element", "Return.button",
               "Return.string", "Return._any"}
UndefinedGuards == {"Check.forUndefined", "Return.number"}
Guards == NullGuards \cup UndefinedGuards

\* The call guard(item).
CallGuard(guard, item) ==
  CASE guard = "Check.forUndefined" -> Check_forUndefined(item)
    [] guard = "Check.forNull" -> Check_forNull(item)
    [] guard = "Return.element" -> Return_element(item)
    [] guard = "Return.button" -> Return_button(item)
    [] guard = "Return.string" -> Return_string(item)
    [] guard = "Return.number" -> Return_number(item)
    [] guard = "Return._any" -> Return_any(item)

\* ------------------------------------------------------------------ state
VARIABLES
  store,          \* chrome.storage.local: slot name -> stored value
  hpc,            \* per click: where the onclick handler is suspended
  versionTest,    \* per click: followMarkVersionTest, popup.ts:9
  marksTest,      \* per click: followMarksTest, popup.ts:14
  cbpc,           \* per click: where MakeMark's tabs.query callback is
  foundTab,       \* per click: foundTabs[0] of the callback
  info,           \* per click: what getInfoFromTab returned
  markId,         \* per click: what generateUniqueId returned
  scriptOutcome,  \* per click: what the awaited executeScript produced
  hsteps,         \* per click: the steps the handler has completed, in order
  hfail,          \* per click: the step whose promise rejected, "" if none
  presentAtClick, \* per click: the slots stored when the click arrived
  markWrites,     \* the clicks whose followMarks write has landed, in order
  overlapped,     \* a click arrived while an earlier handler was still running
  gpc,            \* guard call: "idle", "called" or "settled"
  gName,          \* guard call: the guard that is called
  gIn,            \* guard call: its argument
  gOut            \* guard call: what the call did (returned or threw)

vars == << store, hpc, versionTest, marksTest, cbpc, foundTab, info, markId,
           scriptOutcome, hsteps, hfail, presentAtClick, markWrites,
           overlapped, gpc, gName, gIn, gOut >>

popupVars == << store, hpc, versionTest, marksTest, cbpc, foundTab, info,
                markId, scriptOutcome, hsteps, hfail, presentAtClick,
                markWrites, overlapped >>
guardVars == << gpc, gName, gIn, gOut >>

handlerVars == << hpc, versionTest, marksTest, hsteps, hfail, presentAtClick >>
callbackVars == << cbpc, foundTab, info, markId, scriptOutcome >>

Init ==
  /\ store = EmptyObject
  /\ hpc = [h \in Handlers |-> "idle"]
  /\ versionTest = [h \in Handlers |-> Undefined]
  /\ marksTest = [h \in Handlers |-> Undefined]
  /\ cbpc = [h \in Handlers |-> "none"]
  /\ foundTab = [h \in Handlers |-> EmptyObject]
  /\ info = [h \in Handlers |-> EmptyObject]
  /\ markId = [h \in Handlers |-> ""]
  /\ scriptOutcome = [h \in Handlers |-> NoScript]
  /\ hsteps = [h \in Handlers |-> << >>]
  /\ hfail = [h \in Handlers |-> ""]
  /\ presentAtClick = [h \in Handlers |-> {}]
  /\ markWrites = << >>
  /\ overlapped = FALSE
  /\ gpc = "idle"
  /\ gName = ""
  /\ gIn = JsUndefined
  /\ gOut = NoResult

\* --------------------------------------------------- popup.ts, the handler
\* The button is clicked: the handler starts and suspends on
\* getStorage("followMarkVersion"), popup.ts:8-9.
Click(h) ==
  /\ hpc[h] = "idle"
  /\ \A g \in Handlers : g < h => hpc[g] # "idle"
  /\ hpc' = [hpc EXCEPT ![h] = "getVersion"]
  /\ presentAtClick' = [presentAtClick EXCEPT ![h] = DOMAIN store]
  /\ overlapped' = (overlapped \/ \E g \in Handlers :
                                  hpc[g] \notin {"idle", "done", "failed"})
  /\ UNCHANGED << store, versionTest, marksTest, hsteps, hfail, markWrites >>
  /\ UNCHANGED callbackVars
  /\ UNCHANGED guardVars

\* getStorage("followMarkVersion") resolves; when the value is falsy the
\* handler calls writeStorage({followMarkVersion: version}), popup.ts:9-12.
GetVersionResolves(h) ==
  /\ hpc[h] = "getVersion"
  /\ LET followMarkVersionTest == getStorage(store, "followMarkVersion")
     IN  /\ versionTest' = [versionTest EXCEPT ![h] = followMarkVersionTest]
         /\ hpc' = [hpc EXCEPT ![h] =
                      IF VersionAbsent(followMarkVersionTest)
                      THEN "setVersion" ELSE "getMarks"]
  /\ hsteps' = [hsteps EXCEPT ![h] = Append(@, "getVersion")]
  /\ UNCHANGED << store, marksTest, hfail, presentAtClick, markWrites >>
  /\ UNCHANGED callbackVars
  /\ UNCHANGED overlapped
  /\ UNCHANGED guardVars

\* An awaited storage promise of the handler rejects: nothing catches it, the
\* handler's promise rejects and nothing after the await runs, popup.ts:8-18.
HandlerStorageRejects(h) ==
  /\ hpc[h] \in {"getVersion", "setVersion", "getMarks"}
  /\ hfail' = [hfail EXCEPT ![h] = hpc[h]]
  /\ hpc' = [hpc EXCEPT ![h] = OnReject(hpc[h])]
  /\ UNCHANGED << store, versionTest, marksTest, hsteps, presentAtClick,
                  markWrites >>
  /\ UNCHANGED callbackVars
  /\ UNCHANGED overlapped
  /\ UNCHANGED guardVars

\* writeStorage({followMarkVersion: version}) resolves; the handler goes on
\* to getStorage("followMarks"), popup.ts:12-14 and common.ts:23-29.
SetVersionResolves(h) ==
  /\ hpc[h] = "setVersion"
  /\ store' = writeStorage(store, VersionItems(ManifestVersion))
  /\ hpc' = [hpc EXCEPT ![h] = "getMarks"]
  /\ hsteps' = [hsteps EXCEPT ![h] = Append(@, "setVersion")]
  /\ UNCHANGED << versionTest, marksTest, hfail, presentAtClick, markWrites >>
  /\ UNCHANGED callbackVars
  /\ UNCHANGED overlapped
  /\ UNCHANGED guardVars

\* getStorage("followMarks") resolves; when nothing is stored the handler
\* calls MakeMark, which issues chrome.tabs.query and returns at once, so
\* the handler completes while the query is pending, popup.ts:14-17 and
\* common.ts:1-15.
GetMarksResolves(h) ==
  /\ hpc[h] = "getMarks"
  /\ LET followMarksTest == getStorage(store, "followMarks")
     IN  /\ marksTest' = [marksTest EXCEPT ![h] = followMarksTest]
         /\ IF MarksAbsent(followMarksTest)
            THEN /\ cbpc' = [cbpc EXCEPT ![h] = "query"]
                 /\ hsteps' = [hsteps EXCEPT ![h] =
                                 @ \o << "getMarks", "MakeMark" >>]
            ELSE /\ cbpc' = cbpc
                 /\ hsteps' = [hsteps EXCEPT ![h] = Append(@, "getMarks")]
  /\ hpc' = [hpc EXCEPT ![h] = "done"]
  /\ UNCHANGED << store, versionTest, hfail, presentAtClick, markWrites >>
  /\ UNCHANGED << foundTab, info, markId, scriptOutcome >>
  /\ UNCHANGED overlapped
  /\ UNCHANGED guardVars

\* ------------------------------------------- common.ts, MakeMark's callback
\* chrome.tabs.query calls back with the active tab.  getInfoFromTab either
\* suspends on executeScript or returns; in the second case the callback
\* draws an id and suspends on writeStorage, common.ts:2-6 and 54-69.
QueryCallback(h, tab, id) ==
  /\ cbpc[h] = "query"
  /\ foundTab' = [foundTab EXCEPT ![h] = tab]
  /\ IF NeedsInjection(tab)
     THEN /\ cbpc' = [cbpc EXCEPT ![h] = "inject"]
          /\ UNCHANGED << info, markId >>
     ELSE /\ cbpc' = [cbpc EXCEPT ![h] = "write"]
          /\ info' = [info EXCEPT ![h] = getInfoFromTab(tab, NoScript)]
          /\ markId' = [markId EXCEPT ![h] = id]
  /\ UNCHANGED << store, scriptOutcome, markWrites >>
  /\ UNCHANGED handlerVars
  /\ UNCHANGED overlapped
  /\ UNCHANGED guardVars

\* The awaited executeScript settles (resolves or rejects); getInfoFromTab
\* returns, the callback draws an id and suspends on writeStorage,
\* common.ts:4-6 and 68-85.
ScriptSettles(h, outcome, id) ==
  /\ cbpc[h] = "inject"
  /\ scriptOutcome' = [scriptOutcome EXCEPT ![h] = outcome]
  /\ info' = [info EXCEPT ![h] = getInfoFromTab(foundTab[h], outcome)]
  /\ markId' = [markId EXCEPT ![h] = id]
  /\ cbpc' = [cbpc EXCEPT ![h] = AfterScript(outcome)]
  /\ UNCHANGED << store, foundTab, markWrites >>
  /\ UNCHANGED handlerVars
  /\ UNCHANGED overlapped
  /\ UNCHANGED guardVars

\* writeStorage({followMarks: {[url]: {id, favIconUrl}}}) resolves,
\* common.ts:6-13 and 23-29.
MarkWriteResolves(h) ==
  /\ cbpc[h] = "write"
  /\ store' = writeStorage(store,
                 MarkItems(info[h].url, markId[h], info[h].favIconUrl))
  /\ cbpc' = [cbpc EXCEPT ![h] = "done"]
  /\ markWrites' = Append(markWrites, h)
  /\ UNCHANGED << foundTab, info, markId, scriptOutcome >>
  /\ UNCHANGED handlerVars
  /\ UNCHANGED overlapped
  /\ UNCHANGED guardVars

\* writeStorage rejects inside the callback: the callback's promise rejects.
MarkWriteRejects(h) ==
  /\ cbpc[h] = "write"
  /\ cbpc' = [cbpc EXCEPT ![h] = "writeRejected"]
  /\ UNCHANGED << store, foundTab, info, markId, scriptOutcome, markWrites >>
  /\ UNCHANGED handlerVars
  /\ UNCHANGED overlapped
  /\ UNCHANGED guardVars

Next ==
  \/ \E h \in Handlers : Click(h)
  \/ \E h \in Handlers : GetVersionResolves(h)
  \/ \E h \in Handlers : HandlerStorageRejects(h)
  \/ \E h \in Handlers : SetVersionResolves(h)
  \/ \E h \in Handlers : GetMarksResolves(h)
  \/ \E h \in Handlers, tab \in Tabs, id \in Ids : QueryCallback(h, tab, id)
  \/ \E h \in Handlers, outcome \in ScriptOutcomes, id \in Ids :
        ScriptSettles(h, outcome, id)
  \/ \E h \in Handlers : MarkWriteResolves(h)
  \/ \E h \in Handlers : MarkWriteRejects(h)

Spec == Init /\ [][Next]_vars

\* ------------------------------------------------ the guards, called alone
\* A caller hands a value to one of the guards.
GuardCalled(guard, item) ==
  /\ gpc = "idle"
  /\ gpc' = "called"
  /\ gName' = guard
  /\ gIn' = item
  /\ UNCHANGED gOut
  /\ UNCHANGED popupVars

\* The guard runs: it returns or throws.
GuardSettles ==
  /\ gpc = "called"
  /\ gOut' = CallGuard(gName, gIn)
  /\ gpc' = "settled"
  /\ UNCHANGED << gName, gIn >>
  /\ UNCHANGED popupVars

NextGuards ==
  \/ \E guard \in Guards, item \in JsValues : GuardCalled(guard, item)
  \/ GuardSettles

SpecGuards == Init /\ [][NextGuards]_vars

\* Types of the state.
TypeOK ==
  /\ DOMAIN store \subseteq {"followMarkVersion", "followMarks"}
  /\ \A h \in Handlers :
       /\ hpc[h] \in {"idle", "getVersion", "setVersion", "getMarks",
                       "done", "failed"}
       /\ cbpc[h] \in {"none", "query", "inject", "write", "done",
                        "writeRejected"}

\* ------------------------------------------------------------ properties
\* The steps the handler of click h has completed.
StepsOf(h) == { hsteps[h][i] : i \in 1..Len(hsteps[h]) }

\* getInfoFromTab has returned in the callback of click h.
InfoReturned(h) == cbpc[h] \in {"write", "done", "writeRejected"}

\* The callback of click h is the one whose followMarks write landed last.
LastWriter(h) == Len(markWrites) >= 1 /\ markWrites[Len(markWrites)] = h

\* The URLs an active tab can have, as getInfoFromTab reports them.
TabUrls == { StringOrEmpty(tab, "url") : tab \in Tabs }

\* C1: when the handler of the first click, started on empty storage with no
\* other click around, has completed, followMarkVersion equals the manifest
\* version and followMarks holds exactly one entry, keyed by the URL of the
\* active tab.
C1_FirstClickCompleted ==
  (/\ hpc[1] = "done"
   /\ presentAtClick[1] = {}
   /\ \A g \in Handlers : g # 1 => hpc[g] = "idle")
  => /\ Has(store, "followMarkVersion")
     /\ store.followMarkVersion = ManifestVersion
     /\ Has(store, "followMarks")
     /\ Cardinality(DOMAIN store.followMarks) = 1
     /\ DOMAIN store.followMarks \subseteq TabUrls

\* C2: a followMarks write of MakeMark that lands on a store whose followMarks
\* slot is already populated keeps the stored URL keys and adds (or
\* overwrites) the one URL key it writes.
C2_WriteKeepsOtherUrls ==
  [][\A h \in Handlers :
       (/\ cbpc[h] = "write"
        /\ cbpc'[h] = "done"
        /\ Has(store, "followMarks"))
       => /\ Has(store', "followMarks")
          /\ DOMAIN store'.followMarks =
               (DOMAIN store.followMarks) \cup {info[h].url}]_vars

\* The secondary favicon lookup of the callback of click h failed: the tab has
\* no id, the injection threw, or the injected function returned "".
LookupFailed(h) ==
  \/ ~Has(foundTab[h], "id")
  \/ scriptOutcome[h] = [kind |-> "throws"]
  \/ scriptOutcome[h] = [kind |-> "results", results |-> << [result |-> ""] >>]

\* C3: for a tab whose favIconUrl is a data URI, when the secondary lookup
\* fails, the favIconUrl getInfoFromTab returns is the empty string.
C3_FailedLookupGivesEmpty ==
  \A h \in Handlers :
    (/\ InfoReturned(h)
     /\ StartsWith(StringOrEmpty(foundTab[h], "favIconUrl"), "data:")
     /\ LookupFailed(h))
    => info[h].favIconUrl = ""

\* The click h arrived when both slots were stored.
PopulatedAtClick(h) ==
  /\ hpc[h] # "idle"
  /\ {"followMarkVersion", "followMarks"} \subseteq presentAtClick[h]

\* C4: a click that starts when both slots are populated never calls
\* writeStorage and never calls MakeMark: its handler only reads the two
\* slots, and both slots are still stored, followMarks with the keys it had.
C4_PopulatedClickIsNoOp ==
  \A h \in Handlers :
    PopulatedAtClick(h)
    => /\ hpc[h] # "setVersion"
       /\ cbpc[h] = "none"
       /\ StepsOf(h) \subseteq {"getVersion", "getMarks"}
       /\ (hpc[h] = "done" => hsteps[h] = << "getVersion", "getMarks" >>)

C4_Witness ==
  \E h \in Handlers :
    /\ PopulatedAtClick(h)
    /\ hpc[h] = "done"
    /\ \A g \in Handlers : cbpc[g] \in {"none", "done"}

\* The favIconUrl of the tab the callback of click h found is non-empty and
\* does not start with "data:".
PlainIcon(h) ==
  /\ Has(foundTab[h], "favIconUrl")
  /\ foundTab[h].favIconUrl # ""
  /\ ~StartsWith(foundTab[h].favIconUrl, "data:")

\* C5: for a tab whose favIconUrl is non-empty and does not start with
\* "data:", executeScript is never called and getInfoFromTab returns the
\* tab's favIconUrl unchanged.
C5_PlainIconKept ==
  \A h \in Handlers :
    PlainIcon(h)
    => /\ cbpc[h] # "inject"
       /\ scriptOutcome[h] = NoScript
       /\ InfoReturned(h)
       /\ info[h].favIconUrl = foundTab[h].favIconUrl

C5_Witness ==
  \E h \in Handlers :
    /\ PlainIcon(h)
    /\ foundTab[h].favIconUrl = "https://x/icon.ico"
    /\ cbpc[h] = "done"
    /\ LastWriter(h)
    /\ store.followMarks[info[h].url].favIconUrl = "https://x/icon.ico"

\* C6: when the script injection throws, getInfoFromTab still returns url,
\* title and favIconUrl, the callback goes on to writeStorage, and the write
\* that lands stores the Mark under the active tab's URL.
C6_InjectionFailureSwallowed ==
  \A h \in Handlers :
    scriptOutcome[h].kind = "throws"
    => /\ InfoReturned(h)
       /\ DOMAIN info[h] = {"url", "title", "favIconUrl"}
       /\ info[h].url = StringOrEmpty(foundTab[h], "url")
       /\ markId[h] \in Ids
       /\ (cbpc[h] = "done" => h \in { markWrites[i] : i \in 1..Len(markWrites) })
       /\ (LastWriter(h)
           => /\ Has(store, "followMarks")
              /\ DOMAIN store.followMarks = {info[h].url}
              /\ store.followMarks[info[h].url].id = markId[h])

C6_Witness ==
  \E h \in Handlers :
    /\ scriptOutcome[h].kind = "throws"
    /\ cbpc[h] = "done"
    /\ LastWriter(h)
    /\ info[h].url = "https://a"

\* C7 as stated: every guard returns a non-null, defined input unchanged and
\* throws for a null input and for an undefined input.
C7_GuardsThrowOnNullAndUndefined ==
  gpc = "settled"
  => IF gIn \in {JsNull, JsUndefined}
     THEN gOut.does = "throws"
     ELSE gOut = Returns(gIn)

\* C7 amended: every guard returns a non-null, defined input unchanged; the
\* guards built on Check.forNull throw for null and return undefined
\* unchanged; the guards built on Check.forUndefined throw for undefined and
\* return null unchanged.
C7_GuardsThrowOnOwnSentinel ==
  gpc = "settled"
  => /\ gIn \notin {JsNull, JsUndefined} => gOut = Returns(gIn)
     /\ gName \in NullGuards
        => /\ gIn = JsNull => gOut.does = "throws"
           /\ gIn = JsUndefined => gOut = Returns(JsUndefined)
     /\ gName \in UndefinedGuards
        => /\ gIn = JsUndefined => gOut.does = "throws"
           /\ gIn = JsNull => gOut = Returns(JsNull)

C7_Witness ==
  /\ gpc = "settled"
  /\ gName = "Return.string"
  /\ gIn = [kind |-> "string", value |-> ""]
  /\ gOut = Returns(gIn)

\* C8: a storage promise that rejects inside the click handler ends the
\* handler at that step: the steps it has completed are the ones before the
\* failing await, it calls neither writeStorage nor MakeMark afterwards, and
\* it never runs again.  A failed read of followMarkVersion leaves the handler
\* with no write at all; a failed version write leaves followMarks unread and
\* MakeMark uncalled.
C8_RejectionEndsHandler ==
  /\ [](\A h \in Handlers :
          hfail[h] # ""
          => /\ hpc[h] = "failed"
             /\ cbpc[h] = "none"
             /\ marksTest[h] = Undefined
             /\ "MakeMark" \notin StepsOf(h)
             /\ (hfail[h] = "getVersion"
                 => /\ hsteps[h] = << >>
                    /\ versionTest[h] = Undefined
                    /\ ((\A g \in Handlers : g # h => hpc[g] = "idle")
                        => store = EmptyObject))
             /\ (hfail[h] = "setVersion" => hsteps[h] = << "getVersion" >>)
             /\ (hfail[h] = "getMarks"
                 => hsteps[h] \in { << "getVersion" >>,
                                    << "getVersion", "setVersion" >> }))
  /\ [][\A h \in Handlers :
          hfail[h] # ""
          => UNCHANGED << hpc[h], hfail[h], hsteps[h], cbpc[h],
                          versionTest[h], marksTest[h] >>]_vars

C8_Witness ==
  \E h \in Handlers :
    /\ hfail[h] = "setVersion"
    /\ hpc[h] = "failed"
    /\ ~Has(store, "followMarks")
    /\ \A g \in Handlers : g # h => hpc[g] = "idle"

\* The handler of click h read both slots as absent, wrote the version and
\* called MakeMark.
SawBothAbsent(h) ==
  /\ hsteps[h] = << "getVersion", "setVersion", "getMarks", "MakeMark" >>
  /\ versionTest[h] = Undefined
  /\ marksTest[h] = Undefined

\* The followMarks writes of clicks h1 and h2 were the last two to land, in
\* that order, both handlers saw both slots absent and both callbacks found
\* the same URL.
RacedOnSameUrl(h1, h2) ==
  /\ h1 # h2
  /\ SawBothAbsent(h1)
  /\ SawBothAbsent(h2)
  /\ Len(markWrites) >= 2
  /\ markWrites[Len(markWrites) - 1] = h1
  /\ markWrites[Len(markWrites)] = h2
  /\ info[h1].url = info[h2].url

\* C9: when two handlers both saw both slots absent and both wrote, for the
\* same URL, followMarkVersion is the manifest version and followMarks holds
\* exactly one entry for that URL: the Mark of the second write, with the id
\* that callback drew.
C9_RaceLeavesOneEntry ==
  \A h1, h2 \in Handlers :
    RacedOnSameUrl(h1, h2)
    => /\ Has(store, "followMarkVersion")
       /\ store.followMarkVersion = ManifestVersion
       /\ Has(store, "followMarks")
       /\ DOMAIN store.followMarks = {info[h2].url}
       /\ Cardinality(DOMAIN store.followMarks) = 1
       /\ store.followMarks[info[h2].url] =
            [id |-> markId[h2], favIconUrl |-> info[h2].favIconUrl]

C9_Witness ==
  \E h1, h2 \in Handlers :
    /\ RacedOnSameUrl(h1, h2)
    /\ presentAtClick[h2] = {}
    /\ markId[h1] # markId[h2]
    /\ info[h2].url = "https://a"
    /\ store.followMarks["https://a"].id = markId[h2]

\* C10: no step removes a stored slot, and no step removes a URL key from
\* followMarks.
C10_MarksNeverDeleted ==
  [][/\ DOMAIN store \subseteq DOMAIN store'
     /\ Has(store, "followMarks")
        => DOMAIN store.followMarks \subseteq DOMAIN store'.followMarks]_vars

\* The orders in which one handler can complete its steps.
HandlerOrders ==
  { << "getVersion", "setVersion", "getMarks", "MakeMark" >>,
    << "getVersion", "setVersion", "getMarks" >>,
    << "getVersion", "getMarks", "MakeMark" >>,
    << "getVersion", "getMarks" >> }

\* s is an initial part of t.
IsPrefix(s, t) == Len(s) <= Len(t) /\ SubSeq(t, 1, Len(s)) = s

\* The handler of click h read followMarkVersion as falsy.
ReadVersionFalsy(h) ==
  /\ "getVersion" \in StepsOf(h)
  /\ versionTest[h] \in {Undefined, Defined("")}

\* C11: within one handler the read of followMarkVersion and, when it read
\* falsy, the completed write of followMarkVersion come before the read of
\* followMarks and before MakeMark; followMarkVersion is stored whenever a
\* handler waits for followMarks, whenever MakeMark's callback exists and
\* whenever followMarks is stored.
C11_VersionBeforeMarks ==
  /\ \A h \in Handlers :
       /\ \E order \in HandlerOrders : IsPrefix(hsteps[h], order)
       /\ (ReadVersionFalsy(h) /\ "getMarks" \in StepsOf(h))
          => hsteps[h][2] = "setVersion"
       /\ hpc[h] = "getMarks" => Has(store, "followMarkVersion")
       /\ "getMarks" \in StepsOf(h) => Has(store, "followMarkVersion")
       /\ cbpc[h] # "none"
          => /\ "MakeMark" \in StepsOf(h)
             /\ Has(store, "followMarkVersion")
  /\ Has(store, "followMarks") => Has(store, "followMarkVersion")

C11_Witness ==
  \E h \in Handlers :
    /\ hsteps[h] = << "getVersion", "setVersion", "getMarks", "MakeMark" >>
    /\ ReadVersionFalsy(h)
    /\ cbpc[h] = "done"
    /\ LastWriter(h)
    /\ Has(store, "followMarks")

\* The clicks whose handler has completed a write of followMarkVersion.
VersionWriters == { h \in Handlers : "setVersion" \in StepsOf(h) }

\* The handler of click h has finished: its promise resolved or rejected.
Finished(h) == hpc[h] \in {"done", "failed"}

\* The handler of click h stopped on a rejected storage promise before it
\* had written followMarkVersion.
FailedBeforeVersion(h) == hfail[h] \in {"getVersion", "setVersion"}

\* followMarkVersion is absent or the manifest version.
VersionIsManifest ==
  Has(store, "followMarkVersion") => store.followMarkVersion = ManifestVersion

\* No step changes or removes a stored followMarkVersion.
VersionKept ==
  Has(store, "followMarkVersion")
  => /\ Has(store', "followMarkVersion")
     /\ store'.followMarkVersion = store.followMarkVersion

\* C12 as stated: followMarkVersion is absent or the manifest version, never
\* changes once present, and when each handler finishes before the next click
\* it is written exactly once, by the first click.
C12_VersionWrittenOnceByFirstClick ==
  /\ [](/\ VersionIsManifest
        /\ (~overlapped /\ Finished(1)) => VersionWriters = {1})
  /\ [][VersionKept]_vars

\* C12 amended: followMarkVersion is absent or the manifest version, never
\* changes once present, and when each handler finishes before the next click
\* it is written at most once: by the first click whose handler does not stop
\* on a rejected read or write of followMarkVersion, and by the first click
\* when that handler has no such rejection.
C12_VersionWrittenOnceByFirstSuccess ==
  /\ [](/\ VersionIsManifest
        /\ ~overlapped
           => /\ Cardinality(VersionWriters) <= 1
              /\ \A h \in VersionWriters :
                   \A g \in Handlers : g < h => FailedBeforeVersion(g)
              /\ \A h \in Handlers :
                   (/\ Finished(h)
                    /\ ~FailedBeforeVersion(h)
                    /\ \A g \in Handlers : g < h => FailedBeforeVersion(g))
                   => VersionWriters = {h}
              /\ (Finished(1) /\ ~FailedBeforeVersion(1))
                 => VersionWriters = {1})
  /\ [][VersionKept]_vars

C12_Witness ==
  /\ ~overlapped
  /\ \A h \in Handlers : hpc[h] = "done"
  /\ VersionWriters = {1}
  /\ \A h \in Handlers : h # 1 => versionTest[h] = Defined(ManifestVersion)
  /\ store.followMarkVersion = ManifestVersion

====
